---- MODULE Spec2Model ----
(***************************************************************************)
(* Model of substreams/crates/tycho-substreams/src/balances.rs:            *)
(*   store_balance_changes      (the accumulator, lines 36-64)             *)
(*   aggregate_balances_changes (the reconciler,  lines 83-124)            *)
(* Strings and byte strings are sequences of byte values 0..255; a Rust    *)
(* String is its UTF-8 bytes.                                              *)
(***************************************************************************)
EXTENDS Integers, Sequences, FiniteSets, TLC

(***************************************************************************)
(* Bounds of the model.                                                    *)
(***************************************************************************)
\* longest delta stream consumed by one run of the model
MaxLen == 3
\* largest ordinal a delta of the accumulator specification may carry
MaxOrd == 2

(***************************************************************************)
(* Byte-level conversions used by the code.                                *)
(***************************************************************************)
Colon == 58

\* Option: None and Some(x)
None == <<>>
Some(x) == <<x>>
Err == [ok |-> FALSE]
Ok(v) == [ok |-> TRUE, val |-> v]

\* hex::encode, one nibble: lowercase digits
HexDigit(n) == IF n < 10 THEN 48 + n ELSE 87 + n

RECURSIVE HexEncode(_)
\* hex::encode(&delta.token)
HexEncode(bytes) ==
    IF bytes = <<>> THEN <<>>
    ELSE <<HexDigit(Head(bytes) \div 16), HexDigit(Head(bytes) % 16)>>
         \o HexEncode(Tail(bytes))

\* hex::decode, one character: both cases are accepted, -1 is an invalid character
HexVal(c) ==
    IF c >= 48 /\ c <= 57 THEN c - 48
    ELSE IF c >= 97 /\ c <= 102 THEN c - 87
    ELSE IF c >= 65 /\ c <= 70 THEN c - 55
    ELSE -1

RECURSIVE HexDecodePairs(_)
HexDecodePairs(s) ==
    IF s = <<>> THEN <<>>
    ELSE <<16 * HexVal(s[1]) + HexVal(s[2])>> \o HexDecodePairs(SubSeq(s, 3, Len(s)))

\* hex::decode(token_id): odd length or a non-hex character is an error
HexDecode(s) ==
    IF Len(s) % 2 # 0 \/ \E k \in 1..Len(s) : HexVal(s[k]) = -1
    THEN Err
    ELSE Ok(HexDecodePairs(s))

InRange(b, lo, hi) == b >= lo /\ b <= hi

RECURSIVE IsValidUtf8(_)
\* String::from_utf8 succeeds exactly on well-formed UTF-8
IsValidUtf8(b) ==
    IF b = <<>> THEN TRUE
    ELSE LET n == Len(b)
             c(k) == k <= n /\ InRange(b[k], 128, 191)
             rest(k) == IsValidUtf8(SubSeq(b, k, n))
         IN  IF b[1] <= 127 THEN rest(2)
             ELSE IF InRange(b[1], 194, 223) THEN c(2) /\ rest(3)
             ELSE IF b[1] = 224 THEN n >= 2 /\ InRange(b[2], 160, 191) /\ c(3) /\ rest(4)
             ELSE IF InRange(b[1], 225, 236) \/ InRange(b[1], 238, 239)
                  THEN c(2) /\ c(3) /\ rest(4)
             ELSE IF b[1] = 237 THEN n >= 2 /\ InRange(b[2], 128, 159) /\ c(3) /\ rest(4)
             ELSE IF b[1] = 240
                  THEN n >= 2 /\ InRange(b[2], 144, 191) /\ c(3) /\ c(4) /\ rest(5)
             ELSE IF InRange(b[1], 241, 243) THEN c(2) /\ c(3) /\ c(4) /\ rest(5)
             ELSE IF b[1] = 244
                  THEN n >= 2 /\ InRange(b[2], 128, 143) /\ c(3) /\ c(4) /\ rest(5)
             ELSE FALSE

\* format!("{0}:{1}", component_id, hex::encode(token))
FormatKey(component_id, token) == component_id \o <<Colon>> \o HexEncode(token)

RECURSIVE Split(_)
\* key.split(":"): the segments between the colons
Split(s) ==
    IF \A k \in 1..Len(s) : s[k] # Colon THEN <<s>>
    ELSE LET p == CHOOSE k \in 1..Len(s) :
                      s[k] = Colon /\ \A j \in 1..(k - 1) : s[j] # Colon
         IN  <<SubSeq(s, 1, p - 1)>> \o Split(SubSeq(s, p + 1, Len(s)))

\* key::segment_at(&key, index): the index-th segment, a panic when there is none
SegmentAt(key, index) ==
    IF index + 1 <= Len(Split(key)) THEN Ok(Split(key)[index + 1]) ELSE Err

RECURSIVE UnsignedBE(_)
UnsignedBE(bytes) ==
    IF bytes = <<>> THEN 0
    ELSE 256 * UnsignedBE(SubSeq(bytes, 1, Len(bytes) - 1)) + bytes[Len(bytes)]

RECURSIVE Pow256(_)
Pow256(n) == IF n = 0 THEN 1 ELSE 256 * Pow256(n - 1)

\* BigInt::from_signed_bytes_be: two's complement, the empty string is zero
FromSignedBytesBE(bytes) ==
    IF bytes = <<>> THEN 0
    ELSE IF bytes[1] >= 128 THEN UnsignedBE(bytes) - Pow256(Len(bytes))
    ELSE UnsignedBE(bytes)

Abs(n) == IF n < 0 THEN -n ELSE n

RECURSIVE MagnitudeBE(_)
MagnitudeBE(n) == IF n = 0 THEN <<>> ELSE MagnitudeBE(n \div 256) \o <<n % 256>>

\* the bytes keep the sign: a negative integer is written in two's complement
ToSignedBytesBE(n) ==
    IF n = 0 THEN <<0>>
    ELSE IF n > 0 THEN MagnitudeBE(n)
    ELSE MagnitudeBE(Pow256(Len(MagnitudeBE(-n)) + 1) + n)

\* balance.to_bytes_be().1: the big-endian bytes of the magnitude, [0] for zero
ToBytesBE(n) == IF n = 0 THEN <<0>> ELSE MagnitudeBE(Abs(n))

RECURSIVE DecimalDigits(_)
DecimalDigits(n) ==
    IF n < 10 THEN <<48 + n>> ELSE DecimalDigits(n \div 10) \o <<48 + (n % 10)>>

\* BigInt::to_string as ASCII bytes: the store writes old_value and new_value so
ToDecimal(n) == IF n < 0 THEN <<45>> \o DecimalDigits(-n) ELSE DecimalDigits(n)

RECURSIVE DigitsValue(_)
\* the digits of a decimal string, '_' separators skipped
DigitsValue(s) ==
    IF s = <<>> THEN 0
    ELSE IF s[Len(s)] = 95 THEN DigitsValue(SubSeq(s, 1, Len(s) - 1))
    ELSE 10 * DigitsValue(SubSeq(s, 1, Len(s) - 1)) + (s[Len(s)] - 48)

\* the unsigned part of BigInt::from_str: one optional '+', then digits
ParseUnsigned(s) ==
    LET t == IF s # <<>> /\ s[1] = 43 /\ ~(Len(s) >= 2 /\ s[2] = 43)
             THEN Tail(s) ELSE s
    IN  IF t = <<>> \/ t[1] = 95
           \/ \E k \in 1..Len(t) : ~(InRange(t[k], 48, 57) \/ t[k] = 95)
        THEN Err
        ELSE Ok(DigitsValue(t))

\* BigInt::from_str(&ascii_string): an optional sign, then decimal digits
ParseBigInt(s) ==
    IF s # <<>> /\ s[1] = 45 /\ ~(Len(s) >= 2 /\ s[2] = 43)
    THEN LET u == ParseUnsigned(Tail(s))
         IN  IF u.ok THEN Ok(-u.val) ELSE Err
    ELSE ParseUnsigned(s)

(***************************************************************************)
(* Data of the program.                                                    *)
(***************************************************************************)
\* Transaction { hash, from, to, index }
Transaction(hash, index) == [hash |-> hash, from |-> <<9, 9>>, to |-> <<8, 8>>, index |-> index]

\* BalanceDelta { ord, tx, token, delta, component_id }; tx is an Option
BalanceDelta(ord, tx, token, delta, component_id) ==
    [ord |-> ord, tx |-> tx, token |-> token, delta |-> delta,
     component_id |-> component_id]

\* BalanceChange { token, balance, component_id }
BalanceChange(token, balance, component_id) ==
    [token |-> token, balance |-> balance, component_id |-> component_id]

\* StoreDelta { ordinal, key, old_value, new_value }
StoreDelta(ordinal, key, old_value, new_value) ==
    [ordinal |-> ordinal, key |-> key, old_value |-> old_value, new_value |-> new_value]

EmptyMap == [k \in {} |-> 0]

\* HashMap::insert: the entry of k is v afterwards, a former one is overwritten
Insert(m, k, v) == [x \in DOMAIN m \cup {k} |-> IF x = k THEN v ELSE m[x]]

(***************************************************************************)
(* Inputs of the model.                                                    *)
(***************************************************************************)
Hash1 == <<0, 1>>
Hash2 == <<0, 2>>
\* tokens 0xbb and 0xcc
Token0 == <<187>>
Token1 == <<204>>
Tokens == {Token0, Token1}
\* component ids "a", "b", "a:bb" (it holds the separator) and a byte that is no UTF-8
CompA == <<97>>
CompB == <<98>>
CompColon == <<97, 58, 98, 98>>
CompBadUtf8 == <<255>>
\* signed big-endian deltas +1 and -1
DeltaPlus == <<1>>
DeltaMinus == <<255>>
DeltaBytes == {DeltaPlus, DeltaMinus}

\* the deltas of the accumulator specification
AccDeltas ==
    {BalanceDelta(o, Some(Transaction(Hash1, 0)), t, d, c) :
        o \in 0..MaxOrd, t \in Tokens, d \in DeltaBytes, c \in {CompA, CompB, CompBadUtf8}}

(***************************************************************************)
(* State.                                                                  *)
(***************************************************************************)
VARIABLES
    store,              \* the additive store: key -> accumulated value, of the keys added
    changelog,          \* the store's change-log, one StoreDelta per add
    previous_ordinal,   \* store_balance_changes: HashMap<String, u64> of line 37
    balance_deltas,     \* the deltas the running invocation has taken from its input
    store_deltas,       \* aggregate_balances_changes: the change-log entries taken
    store0,             \* the store when the running store_balance_changes was called
    log0,               \* the change-log when it was called
    earlier,            \* the deltas of the invocations of store_balance_changes that
                        \* returned before the running one, in order
    out,                \* what aggregate_balances_changes returned, None before
    pc                  \* "storing", "stored", "store_panic",
                        \* "aggregating", "returned", "aggregate_panic"

vars == <<store, changelog, previous_ordinal, balance_deltas, store_deltas,
          store0, log0, earlier, out, pc>>

(***************************************************************************)
(* The additive store (StoreAdd<BigInt>, StoreGet<BigInt>).                *)
(***************************************************************************)
\* get_last(key): the latest value of the key, None for a key never added
GetLast(st, key) == IF key \in DOMAIN st THEN Some(st[key]) ELSE None

\* the value an add starts from
Current(st, key) == IF key \in DOMAIN st THEN st[key] ELSE 0

\* add(ord, key, value) on the values
AddValue(st, key, value) == Insert(st, key, Current(st, key) + value)

\* add(ord, key, value) on the change-log: one entry, old and new value in decimal
AddLog(log, st, ord, key, value) ==
    Append(log, StoreDelta(ord, key, ToDecimal(Current(st, key)),
                           ToDecimal(Current(st, key) + value)))

(***************************************************************************)
(* store_balance_changes.                                                  *)
(***************************************************************************)
\* lines 44-45: String::from_utf8(component_id).expect(..) panics
Utf8Panic(delta) == ~IsValidUtf8(delta.component_id)

\* lines 42-47
BalanceKey(delta) == FormatKey(delta.component_id, delta.token)

\* the ordinal is checked against the ordinals of all keys, not of the key alone
OrdinalPanicGlobal(prev, key, current_ord) ==
    \E k \in DOMAIN prev : prev[k] >= current_ord

\* the ordinal check with > in place of >=: equal ordinals pass
OrdinalPanicStrict(prev, key, current_ord) == key \in DOMAIN prev /\ prev[key] > current_ord

\* lines 49-58: the key has an ordinal recorded and it is not below the current one
OrdinalPanic(prev, key, current_ord) == key \in DOMAIN prev /\ prev[key] >= current_ord

\* lines 59-61: *ord = current_ord, or_insert(delta.ord)
RecordOrdinal(prev, key, current_ord) == Insert(prev, key, current_ord)

\* store.add is handed a constant ordinal
AddOrdZero(delta) == 0

\* line 62: the ordinal handed to store.add
AddOrd(delta) == delta.ord

\* the delta bytes are read as an unsigned integer
AddAmountUnsigned(delta) == UnsignedBE(delta.delta)

\* line 62: the value handed to store.add
AddAmount(delta) == FromSignedBytesBE(delta.delta)

\* the call keeps the ordinals the earlier invocation recorded
StoreCallKeepOrdinals ==
    /\ pc = "stored"
    /\ Len(changelog) < MaxLen
    /\ pc' = "storing"
    /\ balance_deltas' = <<>>
    /\ store0' = store
    /\ log0' = changelog
    /\ earlier' = earlier \o balance_deltas
    /\ UNCHANGED <<store, changelog, previous_ordinal, store_deltas, out>>

\* store_balance_changes is called on the store as it is: line 37
StoreCall ==
    /\ pc = "stored"
    /\ Len(changelog) < MaxLen
    /\ pc' = "storing"
    /\ previous_ordinal' = EmptyMap
    /\ balance_deltas' = <<>>
    /\ store0' = store
    /\ log0' = changelog
    /\ earlier' = earlier \o balance_deltas
    /\ UNCHANGED <<store, changelog, store_deltas, out>>

\* one turn of the for_each closure, lines 41-63, on the next delta of the input
StoreStep(delta) ==
    /\ pc = "storing"
    /\ Len(changelog) < MaxLen
    /\ balance_deltas' = Append(balance_deltas, delta)
    /\ IF Utf8Panic(delta) \/ OrdinalPanic(previous_ordinal, BalanceKey(delta), delta.ord)
       THEN /\ pc' = "store_panic"
            /\ UNCHANGED <<store, changelog, previous_ordinal>>
       ELSE /\ pc' = pc
            /\ previous_ordinal' =
                  RecordOrdinal(previous_ordinal, BalanceKey(delta), delta.ord)
            /\ store' = AddValue(store, BalanceKey(delta), AddAmount(delta))
            /\ changelog' = AddLog(changelog, store, AddOrd(delta), BalanceKey(delta),
                                   AddAmount(delta))
    /\ UNCHANGED <<store_deltas, store0, log0, earlier, out>>

\* the input is exhausted: store_balance_changes returns, line 64
StoreReturn ==
    /\ pc = "storing"
    /\ pc' = "stored"
    /\ UNCHANGED <<store, changelog, previous_ordinal, balance_deltas, store_deltas,
                   store0, log0, earlier, out>>

\* a fresh store and a call of store_balance_changes on it
InitStore ==
    /\ store = EmptyMap
    /\ changelog = <<>>
    /\ previous_ordinal = EmptyMap
    /\ balance_deltas = <<>>
    /\ store_deltas = <<>>
    /\ store0 = EmptyMap
    /\ log0 = <<>>
    /\ earlier = <<>>
    /\ out = None
    /\ pc = "storing"

NextAcc ==
    \/ \E delta \in AccDeltas : StoreStep(delta)
    \/ StoreReturn

\* the accumulator: one invocation of store_balance_changes on a fresh store
SpecAcc == InitStore /\ [][NextAcc]_vars

\* the deltas of the specification of successive invocations
MultiDeltas ==
    {BalanceDelta(o, Some(Transaction(Hash1, 0)), t, DeltaMinus, CompA) :
        o \in 0..MaxOrd, t \in Tokens}

NextMulti ==
    \/ \E delta \in MultiDeltas : StoreStep(delta)
    \/ StoreReturn
    \/ StoreCall

\* successive invocations of store_balance_changes on one store
SpecMulti == InitStore /\ [][NextMulti]_vars

(***************************************************************************)
(* aggregate_balances_changes.                                             *)
(***************************************************************************)
Min(a, b) == IF a <= b THEN a ELSE b

\* the zip stops one pair before the end of the shorter input
ZipShort(sds, bds) == [i \in 1..(Min(Len(sds), Len(bds)) - 1) |-> <<sds[i], bds[i]>>]

\* line 90: .zip(deltas.balance_deltas) pairs by position up to the shorter input
Zip(sds, bds) == [i \in 1..Min(Len(sds), Len(bds)) |-> <<sds[i], bds[i]>>]

\* a missing transaction is replaced by a default one instead of a panic
TxOfDefault(balance_delta) ==
    IF balance_delta.tx = None THEN Ok(Transaction(<<>>, 0)) ELSE Ok(balance_delta.tx[1])

\* lines 101-103: balance_delta.tx.expect("Missing transaction on delta")
TxOf(balance_delta) ==
    IF balance_delta.tx = None THEN Err ELSE Ok(balance_delta.tx[1])

\* the balance is read from old_value instead of new_value
BalanceOfOld(store_delta) ==
    IF IsValidUtf8(store_delta.old_value) THEN ParseBigInt(store_delta.old_value) ELSE Err

\* lines 94-97: new_value is UTF-8 and parses as an integer, or the closure panics
BalanceOf(store_delta) ==
    IF IsValidUtf8(store_delta.new_value) THEN ParseBigInt(store_delta.new_value) ELSE Err

\* lines 93 and 105: the second segment of the key, hex-decoded
TokenOf(store_delta) ==
    IF SegmentAt(store_delta.key, 1).ok
    THEN HexDecode(SegmentAt(store_delta.key, 1).val)
    ELSE Err

\* the component id is the whole key instead of its first segment
ComponentOfKey(store_delta) == store_delta.key

\* lines 92 and 107: the first segment of the key
ComponentOf(store_delta) == SegmentAt(store_delta.key, 0).val

\* lines 91-110: the map closure on one pair; Err is a panic
MapPair(store_delta, balance_delta) ==
    IF TokenOf(store_delta).ok /\ BalanceOf(store_delta).ok /\ TxOf(balance_delta).ok
    THEN Ok([tx |-> TxOf(balance_delta).val,
             change |-> BalanceChange(TokenOf(store_delta).val,
                                      ToBytesBE(BalanceOf(store_delta).val),
                                      ComponentOf(store_delta))])
    ELSE Err

\* the groups are keyed by the sender instead of the hash
GroupKeyFrom(item) == item.tx.from

\* line 112: the grouping key
GroupKey(item) == item.tx.hash

\* the length of the longest prefix of items whose grouping key is that of the first
RECURSIVE RunLength(_)
RunLength(items) ==
    IF Len(items) <= 1 THEN Len(items)
    ELSE IF GroupKey(items[2]) = GroupKey(items[1]) THEN 1 + RunLength(Tail(items))
    ELSE 1

RECURSIVE GroupBy(_)
\* line 112: itertools group_by, one group per run of consecutive items of equal key
GroupBy(items) ==
    IF items = <<>> THEN <<>>
    ELSE <<[key |-> GroupKey(items[1]), group |-> SubSeq(items, 1, RunLength(items))]>>
         \o GroupBy(SubSeq(items, RunLength(items) + 1, Len(items)))

RECURSIVE CollectBalances(_)
\* lines 117-120: collect() into the HashMap by token, in order, a later entry of a
\* token replaces the earlier one
CollectBalances(changes) ==
    IF changes = <<>> THEN EmptyMap
    ELSE Insert(CollectBalances(SubSeq(changes, 1, Len(changes) - 1)),
                changes[Len(changes)].token, changes[Len(changes)])

\* the group keeps the transaction of its first item instead of its last
GroupEntryFirst(g) ==
    [txh |-> g.key,
     tx |-> g.group[1].tx,
     balances |-> CollectBalances([i \in 1..Len(g.group) |-> g.group[i].change])]

\* lines 114-122: one group becomes (txh, (transactions.pop().unwrap(), balances))
GroupEntry(g) ==
    [txh |-> g.key,
     tx |-> g.group[Len(g.group)].tx,
     balances |-> CollectBalances([i \in 1..Len(g.group) |-> g.group[i].change])]

RECURSIVE CollectGroups(_)
\* line 123: collect() into the HashMap by transaction hash, a later group of a hash
\* replaces the earlier one
CollectGroups(groups) ==
    IF groups = <<>> THEN EmptyMap
    ELSE LET e == GroupEntry(groups[Len(groups)])
         IN  Insert(CollectGroups(SubSeq(groups, 1, Len(groups) - 1)),
                    e.txh, [tx |-> e.tx, balances |-> e.balances])

\* lines 83-124: Err when the closure panics on a pair, else the map returned
AggregateBalancesChanges(sds, bds) ==
    LET pairs == Zip(sds, bds)
    IN  IF \E i \in 1..Len(pairs) : ~MapPair(pairs[i][1], pairs[i][2]).ok
        THEN Err
        ELSE Ok(CollectGroups(GroupBy(
                 [i \in 1..Len(pairs) |-> MapPair(pairs[i][1], pairs[i][2]).val])))

\* the change-log entries the running store_balance_changes has added
BlockLog == SubSeq(changelog, Len(log0) + 1, Len(changelog))

\* aggregate_balances_changes is called on the change-log of the block and the same
\* deltas, and runs to its return or to its panic
AggregateCall ==
    /\ pc = "stored"
    /\ store_deltas' = BlockLog
    /\ LET r == AggregateBalancesChanges(BlockLog, balance_deltas)
       IN  IF r.ok THEN pc' = "returned" /\ out' = Some(r.val)
           ELSE pc' = "aggregate_panic" /\ out' = None
    /\ UNCHANGED <<store, changelog, previous_ordinal, balance_deltas, store0, log0,
                   earlier>>

\* the zip yields the next pair and the map closure runs on it, lines 90-110
ZipStep(store_delta, balance_delta) ==
    /\ pc = "aggregating"
    /\ Len(store_deltas) = Len(balance_deltas)
    /\ Len(store_deltas) < MaxLen
    /\ store_deltas' = Append(store_deltas, store_delta)
    /\ balance_deltas' = Append(balance_deltas, balance_delta)
    /\ pc' = IF MapPair(store_delta, balance_delta).ok THEN pc ELSE "aggregate_panic"
    /\ UNCHANGED <<store, changelog, previous_ordinal, store0, log0, earlier, out>>

\* one input is exhausted, the other one holds the entries of tail that the zip
\* never pairs; the groups are collected and the map is returned, lines 111-123
ZipEnd(store_tail, balance_tail) ==
    /\ pc = "aggregating"
    /\ store_tail = <<>> \/ balance_tail = <<>>
    /\ store_deltas' = store_deltas \o store_tail
    /\ balance_deltas' = balance_deltas \o balance_tail
    /\ pc' = "returned"
    /\ out' = Some(AggregateBalancesChanges(store_deltas', balance_deltas').val)
    /\ UNCHANGED <<store, changelog, previous_ordinal, store0, log0, earlier>>

(***************************************************************************)
(* Inputs of aggregate_balances_changes and the specifications.            *)
(***************************************************************************)
\* keys "a:bb", "a:cc", "a:b" (odd hex) and "a" (no token segment)
RecKeys == {FormatKey(CompA, Token0), FormatKey(CompA, Token1), <<97, 58, 98>>, <<97>>}
\* new values "1", "2", "-2" and "x"
RecValues == {ToDecimal(1), ToDecimal(2), ToDecimal(-2), <<120>>}
RecStoreDeltas == {StoreDelta(0, k, ToDecimal(0), v) : k \in RecKeys, v \in RecValues}
RecDeltas ==
    {BalanceDelta(0, tx, Token0, DeltaPlus, CompA) :
        tx \in {Some(Transaction(Hash1, 0)), Some(Transaction(Hash2, 0)), None}}
\* the entries a longer input holds beyond the zip: none, a well-formed one, a defect
RecStoreTails ==
    {<<>>, <<StoreDelta(0, FormatKey(CompA, Token1), ToDecimal(0), ToDecimal(1))>>,
     <<StoreDelta(0, FormatKey(CompA, Token1), ToDecimal(0), <<120>>)>>}
RecDeltaTails ==
    {<<>>, <<BalanceDelta(0, Some(Transaction(Hash2, 0)), Token0, DeltaPlus, CompA)>>,
     <<BalanceDelta(0, None, Token0, DeltaPlus, CompA)>>}

\* a call of aggregate_balances_changes on inputs of any shape
InitRec ==
    /\ store = EmptyMap
    /\ changelog = <<>>
    /\ previous_ordinal = EmptyMap
    /\ balance_deltas = <<>>
    /\ store_deltas = <<>>
    /\ store0 = EmptyMap
    /\ log0 = <<>>
    /\ earlier = <<>>
    /\ out = None
    /\ pc = "aggregating"

NextRec ==
    \/ \E sd \in RecStoreDeltas, bd \in RecDeltas : ZipStep(sd, bd)
    \/ \E st \in RecStoreTails, bt \in RecDeltaTails : ZipEnd(st, bt)

\* the reconciler alone
SpecRec == InitRec /\ [][NextRec]_vars

\* transactions of one hash that differ in their index or their sender, and another hash
TxTransactions ==
    {Transaction(Hash1, 0), Transaction(Hash1, 1),
     [Transaction(Hash1, 0) EXCEPT !.from = <<7, 7>>], Transaction(Hash2, 0)}
TxStoreDeltas ==
    {StoreDelta(0, FormatKey(CompA, t), ToDecimal(0), ToDecimal(1)) : t \in Tokens}
TxDeltas == {BalanceDelta(0, Some(tx), Token0, DeltaPlus, CompA) : tx \in TxTransactions}

NextTx ==
    \/ \E sd \in TxStoreDeltas, bd \in TxDeltas : ZipStep(sd, bd)
    \/ ZipEnd(<<>>, <<>>)

\* the reconciler on well-formed inputs whose deltas of one hash carry different
\* transactions
SpecTx == InitRec /\ [][NextTx]_vars

\* the deltas of a block in the order of their ordinals: the n-th one has ordinal n
BlockDeltas(n) ==
    {BalanceDelta(n, Some(Transaction(h, 0)), t, d, c) :
        h \in {Hash1, Hash2}, t \in Tokens, d \in DeltaBytes, c \in {CompA, CompColon}}

NextBlock ==
    \/ \E delta \in BlockDeltas(Len(balance_deltas)) : StoreStep(delta)
    \/ StoreReturn
    \/ AggregateCall

\* a block: store_balance_changes on a fresh store, then aggregate_balances_changes
\* on the change-log it produced and the same deltas
SpecBlock == InitStore /\ [][NextBlock]_vars

\* the deltas of a block of two components that hold the same tokens
PoolDeltas(n) ==
    {BalanceDelta(n, Some(Transaction(h, 0)), t, d, c) :
        h \in {Hash1, Hash2}, t \in Tokens, d \in DeltaBytes, c \in {CompA, CompB}}

NextPools ==
    \/ \E delta \in PoolDeltas(Len(balance_deltas)) : StoreStep(delta)
    \/ StoreReturn
    \/ AggregateCall

\* a block whose component ids have no ':'
SpecPools == InitStore /\ [][NextPools]_vars

(***************************************************************************)
(* Properties of store_balance_changes.                                    *)
(***************************************************************************)
\* the key of a delta, as the specification writes it: "component_id:hex(token)"
KeyOfDelta(d) == d.component_id \o <<Colon>> \o HexEncode(d.token)

\* the component ids of the first n deltas are UTF-8
AllUtf8(ds, n) == \A i \in 1..n : IsValidUtf8(ds[i].component_id)

\* the sequence positions are strictly increasing per key
StrictlyIncreasingPerKey(ds) ==
    \A i, j \in 1..Len(ds) :
        (i < j /\ KeyOfDelta(ds[i]) = KeyOfDelta(ds[j])) => ds[i].ord < ds[j].ord

RECURSIVE SignedSum(_, _, _)
\* the signed sum of the deltas among the first n that carry the key
SignedSum(ds, key, n) ==
    IF n = 0 THEN 0
    ELSE SignedSum(ds, key, n - 1)
         + (IF KeyOfDelta(ds[n]) = key THEN FromSignedBytesBE(ds[n].delta) ELSE 0)

\* the keys the first n deltas carry
KeysOf(ds, n) == {KeyOfDelta(ds[i]) : i \in 1..n}

\* the n-th delta has the key of an earlier delta whose position is not below its own
Offending(ds, n) ==
    \E i \in 1..(n - 1) :
        KeyOfDelta(ds[i]) = KeyOfDelta(ds[n]) /\ ds[i].ord >= ds[n].ord

\* C1: on an empty store, a delta sequence of UTF-8 component ids whose positions
\* are strictly increasing per key is accumulated without a panic, and get_last of
\* every key it carries is the signed sum of the deltas of that key; a key it does
\* not carry has no value.
C1_SumPerKey ==
    (/\ pc \in {"storing", "stored", "store_panic"}
     /\ log0 = <<>>
     /\ AllUtf8(balance_deltas, Len(balance_deltas))
     /\ StrictlyIncreasingPerKey(balance_deltas))
    => /\ pc # "store_panic"
       /\ DOMAIN store = KeysOf(balance_deltas, Len(balance_deltas))
       /\ \A key \in KeysOf(balance_deltas, Len(balance_deltas)) :
              GetLast(store, key)
                  = Some(SignedSum(balance_deltas, key, Len(balance_deltas)))

\* two keys of different components, one with the deltas +1, +1 and one with -1
C1_Witness ==
    /\ pc = "stored"
    /\ GetLast(store, FormatKey(CompA, Token0)) = Some(2)
    /\ GetLast(store, FormatKey(CompB, Token0)) = Some(-1)

\* C2: a delta whose position is not above that of an earlier delta of its key is
\* the last one taken: the invocation panics at it, the delta is not added, and its
\* key holds the sum of the deltas of that key before it.
C2_AbortAtOffence ==
    \A n \in 1..Len(balance_deltas) :
        (AllUtf8(balance_deltas, n) /\ Offending(balance_deltas, n))
        => /\ n = Len(balance_deltas)
           /\ pc = "store_panic"
           /\ Len(changelog) = Len(log0) + n - 1
           /\ GetLast(store, KeyOfDelta(balance_deltas[n]))
                  = Some(Current(store0, KeyOfDelta(balance_deltas[n]))
                         + SignedSum(balance_deltas, KeyOfDelta(balance_deltas[n]),
                                     n - 1))

\* the panic on two deltas of one key with equal ordinals, after two deltas were added
C2_Witness ==
    /\ pc = "store_panic"
    /\ Len(balance_deltas) = 3
    /\ \E i \in 1..2 :
           /\ KeyOfDelta(balance_deltas[i]) = KeyOfDelta(balance_deltas[3])
           /\ balance_deltas[i].ord = balance_deltas[3].ord

\* C3 as claimed: when store_balance_changes panics, the store and its change-log are
\* what they were when it was called.
C3_AllOrNothing ==
    pc = "store_panic" => (store = store0 /\ changelog = log0)

\* C10: while store_balance_changes has not panicked, the change-log has grown by one
\* entry per delta taken, in stream order, and the i-th new entry has the ordinal and
\* the key of the i-th delta, the value of the key before it as old_value and that
\* value plus the delta as new_value.
C10_LogAligned ==
    pc \in {"storing", "stored"}
    => /\ Len(changelog) = Len(log0) + Len(balance_deltas)
       /\ \A i \in 1..Len(balance_deltas) :
              LET d == balance_deltas[i]
                  before == Current(store0, KeyOfDelta(d))
                            + SignedSum(balance_deltas, KeyOfDelta(d), i - 1)
              IN  changelog[Len(log0) + i]
                      = StoreDelta(d.ord, KeyOfDelta(d), ToDecimal(before),
                                   ToDecimal(before + FromSignedBytesBE(d.delta)))

\* a return after three deltas, two of them on one key, with ordinals above zero
C10_Witness ==
    /\ pc = "stored"
    /\ Len(changelog) = 3
    /\ changelog[1].key = changelog[3].key
    /\ changelog[2].key # changelog[1].key
    /\ changelog[3].ordinal = 2
    /\ changelog[3].old_value # ToDecimal(0)

(***************************************************************************)
(* Properties of aggregate_balances_changes.                               *)
(***************************************************************************)
\* the positions the zip pairs
Paired == 1..Min(Len(store_deltas), Len(balance_deltas))

\* the transaction hashes of the deltas at the positions of I
HashesAt(I) == {balance_deltas[i].tx[1].hash : i \in I}

\* the characters of a hex string
IsHexChar(c) == c \in (48..57) \cup (97..102) \cup (65..70)

\* the key has no second segment, or one that is no hex string of whole bytes
TokenDefect(sd) ==
    \/ Len(Split(sd.key)) < 2
    \/ Len(Split(sd.key)[2]) % 2 = 1
    \/ \E k \in 1..Len(Split(sd.key)[2]) : ~IsHexChar(Split(sd.key)[2][k])

\* new_value is not an optional sign followed by decimal digits
ValueDefect(sd) ==
    LET v == sd.new_value
        digits == IF v # <<>> /\ v[1] \in {43, 45} THEN Tail(v) ELSE v
    IN  digits = <<>> \/ \E k \in 1..Len(digits) : digits[k] \notin 48..57

\* position i holds a defect: no transaction, a bad token segment, a bad new_value
DefectAt(i) ==
    \/ i <= Len(balance_deltas) /\ balance_deltas[i].tx = None
    \/ i <= Len(store_deltas)
       /\ (TokenDefect(store_deltas[i]) \/ ValueDefect(store_deltas[i]))

\* C5: for inputs of equal length whose deltas all carry a transaction, the keys of
\* the map returned are the distinct transaction hashes of the delta stream.
C5_GroupingComplete ==
    (/\ pc = "returned"
     /\ Len(store_deltas) = Len(balance_deltas)
     /\ \A i \in 1..Len(balance_deltas) : balance_deltas[i].tx # None)
    => /\ out # None
       /\ DOMAIN out[1] = HashesAt(1..Len(balance_deltas))

\* a map returned for three deltas whose first and last share a hash the second has not
C5_Witness ==
    /\ pc = "returned"
    /\ Len(store_deltas) = 3
    /\ Len(balance_deltas) = 3
    /\ balance_deltas[1].tx = balance_deltas[3].tx
    /\ balance_deltas[2].tx # balance_deltas[1].tx
    /\ Cardinality(DOMAIN out[1]) = 2

\* C8 as claimed: a defect at any position of either input makes
\* aggregate_balances_changes panic without a map.
C8_AnyDefectAborts ==
    (\E i \in 1..(MaxLen + 1) : DefectAt(i))
    => (pc = "aggregate_panic" /\ out = None)

\* C8 as amended: a defect at a position the zip pairs makes
\* aggregate_balances_changes panic without a map.
C8_PairedDefectAborts ==
    (pc \in {"aggregating", "returned", "aggregate_panic"}
     /\ \E i \in Paired : DefectAt(i))
    => (pc = "aggregate_panic" /\ out = None)

\* a panic on the third pair, after two pairs without a defect
C8_Witness ==
    /\ pc = "aggregate_panic"
    /\ out = None
    /\ Len(store_deltas) = 3
    /\ \A i \in 1..2 : ~DefectAt(i)
    /\ DefectAt(3)

(***************************************************************************)
(* Properties of a block: store_balance_changes, then                      *)
(* aggregate_balances_changes on its change-log.                           *)
(***************************************************************************)
\* the positions of the deltas of transaction hash h on token t
DeltasOn(h, t) ==
    {i \in 1..Len(balance_deltas) :
        balance_deltas[i].tx[1].hash = h /\ balance_deltas[i].token = t}

Max(S) == CHOOSE x \in S : \A y \in S : y <= x

\* the unsigned big-endian bytes of the integer a decimal string shows
BalanceBytes(decimal) == ToBytesBE(ParseBigInt(decimal).val)

\* C4 as claimed: when a transaction hash has two or more deltas on a token, the
\* balance of that token in the entry of the hash is the new_value of the change-log
\* entry paired with the last of them.
C4_LastWriteWins ==
    pc = "returned"
    => \A h \in HashesAt(1..Len(balance_deltas)), t \in Tokens :
           Cardinality(DeltasOn(h, t)) >= 2
           => /\ h \in DOMAIN out[1]
              /\ t \in DOMAIN out[1][h].balances
              /\ out[1][h].balances[t].balance
                     = BalanceBytes(store_deltas[Max(DeltasOn(h, t))].new_value)

RECURSIVE SinglePass(_, _)
\* one pass over the first n pairs in stream order: the BalanceChange of each pair
\* of hash h is inserted under its token, a former one of the token is overwritten
SinglePass(h, n) ==
    IF n = 0 THEN EmptyMap
    ELSE LET item == MapPair(store_deltas[n], balance_deltas[n]).val
         IN  IF item.tx.hash = h
             THEN Insert(SinglePass(h, n - 1), item.change.token, item.change)
             ELSE SinglePass(h, n - 1)

\* C6 as claimed: the token map of every transaction hash is that of the single pass
\* over the whole stream.
C6_GroupsWholeStream ==
    pc = "returned"
    => \A h \in HashesAt(Paired) :
           /\ h \in DOMAIN out[1]
           /\ out[1][h].balances = SinglePass(h, Len(store_deltas))

C9_KeyRoundTrip ==
    \A i \in 1..Len(changelog) :
        /\ ComponentOf(changelog[i]) = balance_deltas[i].component_id
        /\ TokenOf(changelog[i]) = Ok(balance_deltas[i].token)
        /\ \A j \in 1..Len(changelog) :
               changelog[i].key = changelog[j].key
               => /\ balance_deltas[i].component_id = balance_deltas[j].component_id
                  /\ balance_deltas[i].token = balance_deltas[j].token

\* the positions of the deltas of transaction hash h whose key parses to token t
ParsedOn(h, t) ==
    {i \in 1..Len(balance_deltas) :
        /\ balance_deltas[i].tx[1].hash = h
        /\ LET segments == Split(KeyOfDelta(balance_deltas[i]))
           IN  HexDecode(segments[2]) = Ok(t)}

\* no delta after the i-th one has its key
LastOnKey(i) ==
    \A j \in (i + 1)..Len(balance_deltas) :
        KeyOfDelta(balance_deltas[j]) # KeyOfDelta(balance_deltas[i])

OffendingPrev(ds, n) ==
    \E i \in 1..(n - 1) :
        /\ KeyOfDelta(ds[i]) = KeyOfDelta(ds[n])
        /\ \A j \in (i + 1)..(n - 1) : KeyOfDelta(ds[j]) # KeyOfDelta(ds[n])
        /\ ds[i].ord >= ds[n].ord

AllDeltas == earlier \o balance_deltas

\* C17: an invocation panics exactly when one of its own deltas has a position not
\* above that of the previous delta of its key in the same invocation, whatever
\* earlier invocations applied; without a panic every key holds the signed sum of
\* its deltas over all invocations.
C17_OrderingPerInvocation ==
    pc \in {"storing", "stored", "store_panic"}
    => /\ pc = "store_panic"
          <=> \E n \in 1..Len(balance_deltas) : OffendingPrev(balance_deltas, n)
       /\ pc # "store_panic"
          => \A key \in KeysOf(AllDeltas, Len(AllDeltas)) :
                 GetLast(store, key) = Some(SignedSum(AllDeltas, key, Len(AllDeltas)))

\* a second invocation has returned after a delta whose position is below the one
\* the first invocation applied to the same key; the key holds the sum of both
C17_Witness ==
    /\ pc = "stored"
    /\ Len(earlier) = 1
    /\ Len(balance_deltas) = 1
    /\ KeyOfDelta(earlier[1]) = KeyOfDelta(balance_deltas[1])
    /\ balance_deltas[1].ord < earlier[1].ord
    /\ GetLast(store, KeyOfDelta(earlier[1])) = Some(-2)

(***************************************************************************)
(* The map returned, position by position.                                 *)
(***************************************************************************)
\* the last paired position whose delta has transaction hash h
LastPos(h) == Max({i \in Paired : balance_deltas[i].tx[1].hash = h})

\* the first position of the run of consecutive deltas of hash h that ends at LastPos(h)
RunStart(h) ==
    CHOOSE j \in 1..LastPos(h) :
        /\ \A k \in j..LastPos(h) : balance_deltas[k].tx[1].hash = h
        /\ j = 1 \/ balance_deltas[j - 1].tx[1].hash # h

\* the positions of the last run of consecutive deltas of hash h
LastRun(h) == RunStart(h)..LastPos(h)

\* the tokens the keys of the positions of I parse to
TokensAt(I) == {TokenOf(store_deltas[i]).val : i \in I}

\* the last position of the last run of h whose key parses to token t
SourcePos(h, t) == Max({i \in LastRun(h) : TokenOf(store_deltas[i]).val = t})

\* the entry of hash h built from the paired positions alone
ExpectedEntry(h) ==
    [tx |-> balance_deltas[LastPos(h)].tx[1],
     balances |->
        [t \in TokensAt(LastRun(h)) |->
            BalanceChange(t,
                          ToBytesBE(BalanceOf(store_deltas[SourcePos(h, t)]).val),
                          ComponentOf(store_deltas[SourcePos(h, t)]))]]

\* C13: inputs of different lengths do not make aggregate_balances_changes panic: a
\* panic has a defect at a paired position, and the map returned for inputs of
\* different lengths is built from the first min(m, n) positions alone, so that no
\* entry beyond them appears in it.
C13_TruncatesToShorter ==
    /\ pc = "aggregate_panic" => \E i \in Paired : DefectAt(i)
    /\ (pc = "returned" /\ Len(store_deltas) # Len(balance_deltas))
       => /\ out # None
          /\ DOMAIN out[1] = HashesAt(Paired)
          /\ \A h \in DOMAIN out[1] : out[1][h] = ExpectedEntry(h)

\* a map returned for a delta stream one longer than the change-log; the last delta
\* has a transaction whose hash is no key of the map
C13_Witness ==
    /\ pc = "returned"
    /\ Len(store_deltas) >= 1
    /\ Len(balance_deltas) = Len(store_deltas) + 1
    /\ balance_deltas[Len(balance_deltas)].tx # None
    /\ balance_deltas[Len(balance_deltas)].tx[1].hash \notin DOMAIN out[1]

\* C15: the Transaction of every entry of the map returned is the Transaction of the
\* last delta of the stream that has the hash of the entry.
C15_LastTransactionKept ==
    pc = "returned"
    => \A h \in DOMAIN out[1] :
           /\ \E i \in Paired : balance_deltas[i].tx[1].hash = h
           /\ out[1][h].tx = balance_deltas[LastPos(h)].tx[1]

\* three deltas of one hash with three different transactions: the entry holds the
\* third one
C15_Witness ==
    /\ pc = "returned"
    /\ Len(balance_deltas) = 3
    /\ HashesAt(Paired) = {Hash1}
    /\ balance_deltas[1].tx[1].index # balance_deltas[3].tx[1].index
    /\ balance_deltas[2].tx[1].from # balance_deltas[3].tx[1].from
    /\ out[1][Hash1].tx = balance_deltas[3].tx[1]

\* C18: in every map returned, every key is the hash of the Transaction under it,
\* every token map is non-empty and keyed by the token of its BalanceChange, and the
\* component id and the token of every BalanceChange are the first segment and the
\* hex-decoded second segment of the key of a change-log entry paired with a delta of
\* that hash.
C18_WellFormed ==
    pc = "returned"
    => /\ out # None
       /\ \A h \in DOMAIN out[1] :
              /\ out[1][h].tx.hash = h
              /\ DOMAIN out[1][h].balances # {}
              /\ \A t \in DOMAIN out[1][h].balances :
                     LET change == out[1][h].balances[t]
                     IN  /\ change.token = t
                         /\ \E i \in Paired :
                                /\ balance_deltas[i].tx[1].hash = h
                                /\ Len(Split(store_deltas[i].key)) >= 2
                                /\ Split(store_deltas[i].key)[1] = change.component_id
                                /\ Split(store_deltas[i].key)[2] = HexEncode(change.token)

\* a map returned with two hashes, one of them with two tokens
C18_Witness ==
    /\ pc = "returned"
    /\ Cardinality(DOMAIN out[1]) = 2
    /\ \E h \in DOMAIN out[1] : Cardinality(DOMAIN out[1][h].balances) = 2

\* the deltas of hash h are consecutive in the stream
Contiguous(h) ==
    \A i \in Paired : balance_deltas[i].tx[1].hash = h => i \in LastRun(h)

\* the last position at which hash h has a delta of the component and token of delta d
LastOnPair(h, d) ==
    Max({j \in Paired : /\ balance_deltas[j].tx[1].hash = h
                        /\ balance_deltas[j].component_id = d.component_id
                        /\ balance_deltas[j].token = d.token})

\* C14 as claimed: on a fresh store, for every hash whose deltas are consecutive and
\* every (component id, token) that one of its deltas has, the entry of the hash holds
\* a BalanceChange of that component id and that token whose balance is the total of
\* the pair right after the last delta of the hash on it.
C14_EveryPairPresent ==
    (pc = "returned" /\ log0 = <<>>)
    => \A h \in HashesAt(Paired) :
           Contiguous(h)
           => \A i \in LastRun(h) :
                  LET d == balance_deltas[i]
                      total == SignedSum(balance_deltas, KeyOfDelta(d), LastOnPair(h, d))
                  IN  \E t \in DOMAIN out[1][h].balances :
                          /\ out[1][h].balances[t].component_id = d.component_id
                          /\ out[1][h].balances[t].token = d.token
                          /\ out[1][h].balances[t].balance = ToBytesBE(total)

\* C16: every balance of the map returned is the unsigned big-endian magnitude, with
\* no leading zero byte, of the integer the new_value of its change-log entry shows,
\* which on a fresh store is the signed total of the key; two balances built from v
\* and -v have the same bytes.
C16_UnsignedMagnitude ==
    (pc = "returned" /\ log0 = <<>>)
    => \A h \in DOMAIN out[1] :
           \A t \in DOMAIN out[1][h].balances :
               LET i == SourcePos(h, t)
                   v == ParseBigInt(store_deltas[i].new_value).val
                   b == out[1][h].balances[t].balance
               IN  /\ v = SignedSum(balance_deltas, KeyOfDelta(balance_deltas[i]), i)
                   /\ UnsignedBE(b) = Abs(v)
                   /\ b = <<0>> \/ b[1] # 0
                   /\ \A h2 \in DOMAIN out[1] :
                          \A t2 \in DOMAIN out[1][h2].balances :
                              ParseBigInt(store_deltas[SourcePos(h2, t2)].new_value).val = -v
                              => out[1][h2].balances[t2].balance = b

\* the map returned holds a balance built from the total -1 and one built from +1,
\* and both are the byte 1
C16_Witness ==
    /\ pc = "returned"
    /\ \E h \in DOMAIN out[1], h2 \in DOMAIN out[1] :
           \E t \in DOMAIN out[1][h].balances, t2 \in DOMAIN out[1][h2].balances :
               /\ store_deltas[SourcePos(h, t)].new_value = ToDecimal(-1)
               /\ store_deltas[SourcePos(h2, t2)].new_value = ToDecimal(1)
               /\ out[1][h].balances[t].balance = <<1>>
               /\ out[1][h2].balances[t2].balance = <<1>>

====
